---- MODULE Spec2Model ----
(***************************************************************************)
(* State-machine model of src/main.py: the daily ingest pipeline           *)
(*   download_data_by_date -> validate_data -> transform_data ->           *)
(*   insert_data_to_db, driven by process_last_n_days over a trailing      *)
(*   window of days, against one SQLite file (operational_capacity and     *)
(*   the scratch table temp_table).                                        *)
(*                                                                         *)
(* Cells of a DataFrame / SQL row are tagged records [t, v]:               *)
(*   t = "null"      NaN / NaT / SQL NULL                                  *)
(*   t = "str"       text, v a string                                      *)
(*   t = "real"      a number, v in tenths (12.5 is 125)                   *)
(*   t = "datetime"  a timestamp, v in clock ticks                         *)
(*   t = "date"      a calendar date, v the day number                     *)
(***************************************************************************)
EXTENDS Integers, Sequences, FiniteSets, Bags, TLC

(************************* bounds of the model *****************************)
\* largest n passed to process_last_n_days
MaxN == 2
\* runs of process_last_n_days one instance starts
MaxRuns == 2
\* days one instance processes, over all its runs
MaxDays == 2
\* last value of the clock, in ticks
MaxNow == 2
\* rows of a record set handed to validate_data in SpecValidate
MaxVRows == 2
\* runs, and days of a run, of each of two concurrent instances
TwoRuns == 1
TwoN == 1

(************************* clock and dates *********************************)
\* clock ticks per calendar day: a datetime carries a time of day
TicksPerDay == 2

\* timedelta(days=k), in ticks
timedelta(k) == k * TicksPerDay

NULL == [t |-> "null", v |-> 0]
Str(s) == [t |-> "str", v |-> s]
Real(x) == [t |-> "real", v |-> x]
Datetime(x) == [t |-> "datetime", v |-> x]
Date(d) == [t |-> "date", v |-> d]

isnull(c) == c.t = "null"

(************************* columns *****************************************)
required_columns ==
    << "Post Date", "Effective Date", "Loc", "Loc Zn", "Loc Name",
       "Loc Purp Desc", "Loc/QTI", "Flow Ind", "DC", "OPC", "TSQ", "OAC",
       "IT", "Auth Overrun Ind", "Nom Cap Exceed Ind", "All Qty Avail",
       "Qty Reason" >>

critical_columns == << "Post Date", "Effective Date", "Loc", "Loc Zn", "Loc/QTI" >>

\* a mapping in which the canonical name of OPC is the source name DC
column_mapping_overlap ==
    [c \in {required_columns[i] : i \in 1..Len(required_columns)} |->
        CASE c = "Post Date" -> "post_date"
          [] c = "Effective Date" -> "effective_date"
          [] c = "Loc" -> "loc"
          [] c = "Loc Zn" -> "loc_zn"
          [] c = "Loc Name" -> "loc_name"
          [] c = "Loc Purp Desc" -> "loc_purp_desc"
          [] c = "Loc/QTI" -> "loc_qti"
          [] c = "Flow Ind" -> "flow_ind"
          [] c = "DC" -> "dc"
          [] c = "OPC" -> "DC"
          [] c = "TSQ" -> "tsq"
          [] c = "OAC" -> "oac"
          [] c = "IT" -> "it"
          [] c = "Auth Overrun Ind" -> "auth_overrun_ind"
          [] c = "Nom Cap Exceed Ind" -> "nom_cap_exceed_ind"
          [] c = "All Qty Avail" -> "all_qty_avail"
          [] c = "Qty Reason" -> "qty_reason"]

column_mapping ==
    [c \in {required_columns[i] : i \in 1..Len(required_columns)} |->
        CASE c = "Post Date" -> "post_date"
          [] c = "Effective Date" -> "effective_date"
          [] c = "Loc" -> "loc"
          [] c = "Loc Zn" -> "loc_zn"
          [] c = "Loc Name" -> "loc_name"
          [] c = "Loc Purp Desc" -> "loc_purp_desc"
          [] c = "Loc/QTI" -> "loc_qti"
          [] c = "Flow Ind" -> "flow_ind"
          [] c = "DC" -> "dc"
          [] c = "OPC" -> "opc"
          [] c = "TSQ" -> "tsq"
          [] c = "OAC" -> "oac"
          [] c = "IT" -> "it"
          [] c = "Auth Overrun Ind" -> "auth_overrun_ind"
          [] c = "Nom Cap Exceed Ind" -> "nom_cap_exceed_ind"
          [] c = "All Qty Avail" -> "all_qty_avail"
          [] c = "Qty Reason" -> "qty_reason"]

\* the 17 columns of CREATE_TABLE_SQL, which the INSERT ... SELECT lists
table_columns ==
    { "post_date", "effective_date", "loc", "loc_zn", "loc_name",
      "loc_purp_desc", "loc_qti", "flow_ind", "dc", "opc", "tsq", "oac",
      "it", "auth_overrun_ind", "nom_cap_exceed_ind", "all_qty_avail",
      "qty_reason" }

numeric_cols == << "loc_qti", "tsq", "oac" >>

Range(s) == {s[i] : i \in 1..Len(s)}

IndexOf(s, e) == CHOOSE i \in 1..Len(s) : s[i] = e

Last(sq) == sq[Len(sq)]

RECURSIVE MapSeq(_, _)
MapSeq(F(_), s) == IF s = << >> THEN << >> ELSE << F(Head(s)) >> \o MapSeq(F, Tail(s))

RECURSIVE SeqToBag(_)
SeqToBag(s) == IF s = << >> THEN EmptyBag ELSE SetToBag({Head(s)}) (+) SeqToBag(Tail(s))

(************************* download_data_by_date ***************************)
\* tokens pd.read_csv reads as NaN: the na_values of the call and the
\* empty field of pandas' defaults
na_values == {"NA", "N/A", "missing", ""}

\* pd.read_csv with keep_default_na=False: an empty field is read as text
parse_cell_keep_empty(tok) ==
    IF tok \in {"NA", "N/A", "missing"} THEN NULL ELSE Str(tok)

parse_cell(tok) == IF tok \in na_values THEN NULL ELSE Str(tok)

\* a data line with more fields than the header is a bad line and is
\* skipped; a shorter one is padded with NaN
parse_line(header, line) ==
    [c \in Range(header) |->
        IF IndexOf(header, c) <= Len(line)
        THEN parse_cell(line[IndexOf(header, c)])
        ELSE NULL]

\* text: the response body, a sequence of lines, each a sequence of fields;
\* the first line is the header
read_csv(text) ==
    LET header == Head(text)
        good == SelectSeq(Tail(text), LAMBDA l : Len(l) >= 1 /\ Len(l) <= Len(header))
        Parse(l) == parse_line(header, l)
    IN [columns |-> Range(header), rows |-> MapSeq(Parse, good)]

\* df[col] = value: the column is added, or overwritten, in every row
SetColumn(d, col, val) ==
    LET Put(r) == [c \in d.columns \cup {col} |-> IF c = col THEN val ELSE r[c]]
    IN [columns |-> d.columns \cup {col}, rows |-> MapSeq(Put, d.rows)]

(************************* validate_data ***********************************)
\* validate_data without the check of the critical columns
validate_data_no_null_check(d) ==
    IF ~ \A i \in 1..Len(required_columns) : required_columns[i] \in d.columns
    THEN FALSE
    ELSE IF d.rows = << >>
    THEN FALSE
    ELSE TRUE

\* validate_data without the check for empty data
validate_data_no_empty_check(d) ==
    IF ~ \A i \in 1..Len(required_columns) : required_columns[i] \in d.columns
    THEN FALSE
    ELSE IF \E i \in 1..Len(d.rows) : \E j \in 1..Len(critical_columns) :
                isnull(d.rows[i][critical_columns[j]])
    THEN FALSE
    ELSE TRUE

validate_data(d) ==
    IF ~ \A i \in 1..Len(required_columns) : required_columns[i] \in d.columns
    THEN FALSE
    ELSE IF d.rows = << >>
    THEN FALSE
    ELSE IF \E i \in 1..Len(d.rows) : \E j \in 1..Len(critical_columns) :
                isnull(d.rows[i][critical_columns[j]])
    THEN FALSE
    ELSE TRUE

(************************* transform_data **********************************)
\* df.rename(columns=column_mapping): mapped names are replaced, others kept
rename_column(c) == IF c \in DOMAIN column_mapping THEN column_mapping[c] ELSE c

rename(d) ==
    LET cols == {rename_column(c) : c \in d.columns}
        Ren(r) == [k \in cols |-> r[CHOOSE c \in d.columns : rename_column(c) = k]]
    IN [columns |-> cols, rows |-> MapSeq(Ren, d.rows)]

\* pd.to_datetime(x) without .dt.date: the time of day is kept
to_date_keep_time(c) == IF c.t = "datetime" THEN Date(c.v)
                        ELSE IF c.t = "date" THEN c
                        ELSE NULL

\* pd.to_datetime(x).dt.date: the time of day is discarded
to_date(c) == IF c.t = "datetime" THEN Date(c.v \div TicksPerDay)
              ELSE IF c.t = "date" THEN c
              ELSE NULL

\* numbers the feed's numeric fields are written as, in tenths
numeric_literals == [s \in {"12.5", "7", "0"} |->
                        CASE s = "12.5" -> 125 [] s = "7" -> 70 [] s = "0" -> 0]

\* pd.to_numeric(x, errors='ignore'): what does not parse is left as it is
to_numeric_ignore(c) == IF c.t = "real" THEN c
                        ELSE IF c.t = "str" /\ c.v \in DOMAIN numeric_literals
                        THEN Real(numeric_literals[c.v])
                        ELSE c

\* pd.to_numeric(x, errors='coerce')
to_numeric(c) == IF c.t = "real" THEN c
                 ELSE IF c.t = "str" /\ c.v \in DOMAIN numeric_literals
                 THEN Real(numeric_literals[c.v])
                 ELSE NULL

transform_data(d) ==
    LET r1 == rename(d)
        Conv(r) == [k \in r1.columns |->
                      IF k \in {"post_date", "effective_date"} THEN to_date(r[k])
                      ELSE IF k \in Range(numeric_cols) THEN to_numeric(r[k])
                      ELSE r[k]]
    IN [columns |-> r1.columns, rows |-> MapSeq(Conv, r1.rows)]

(************************* insert_data_to_db *******************************)
NoTable == [present |-> FALSE, rows |-> << >>]

\* df.to_sql('temp_table', if_exists='replace'): the scratch table is
\* dropped, recreated and filled with the batch
to_sql(d) == [present |-> TRUE, rows |-> d.rows]

\* SQL '=' is true only between non-null values
sql_eq(a, b) == ~ isnull(a) /\ ~ isnull(b) /\ a = b

\* the WHERE of the NOT EXISTS subquery
same_key(q, r) ==
    /\ sql_eq(q["post_date"], r["post_date"])
    /\ sql_eq(q["effective_date"], r["effective_date"])
    /\ sql_eq(q["loc"], r["loc"])

\* the 17 selected columns of a temp_table row
select_columns(r) == [k \in table_columns |-> r[k]]

\* INSERT OR IGNORE INTO operational_capacity SELECT ... FROM temp_table
\* WHERE NOT EXISTS (...): the SELECT is evaluated against the table as it
\* is before the statement; the table declares no UNIQUE constraint, so OR
\* IGNORE discards nothing
new_records(tbl, temp) ==
    LET Sel(r) == select_columns(r)
    IN SelectSeq(MapSeq(Sel, temp.rows),
                 LAMBDA r : ~ \E q \in BagToSet(tbl) : same_key(q, r))

(************************* the feed *****************************************)
\* header row of the portal's CSV: the 17 source column names
header == required_columns

\* one data line of the feed, in header order; Qty Reason is left empty
Line(loc, zn, qti, tsq) ==
    << "01/02/2024", "01/02/2024", loc, zn, "name", "desc", qti, "R", "7",
       "7", tsq, "12.5", "0", "N", "N", "Y", "" >>

\* one location
F_one == << header, Line("L1", "Z1", "12.5", "7") >>
\* two locations, the second with a non-numeric Loc/QTI and TSQ marked NA
F_two == << header, Line("L1", "Z1", "12.5", "7"), Line("L2", "Z1", "abc", "NA") >>
\* the same Loc on two rows
F_dup == << header, Line("L1", "Z1", "12.5", "7"), Line("L1", "Z1", "7", "7") >>
\* a row whose Loc field is empty
F_nullloc == << header, Line("L1", "Z1", "12.5", "7"), Line("", "Z1", "7", "7") >>
\* header only
F_empty == << header >>
\* the Loc Zn column is missing from header and rows
F_nocol ==
    LET Drop(l) == SubSeq(l, 1, 3) \o SubSeq(l, 5, Len(l))
    IN << Drop(header), Drop(Line("L1", "Z1", "12.5", "7")) >>
\* a line with one field too many after a good line
F_bad == << header, Line("L1", "Z1", "12.5", "7"),
            Line("L2", "Z1", "7", "7") \o << "extra" >> >>

\* a second location whose Loc/QTI, TSQ and OAC hold text that is no number
F_text == << header, Line("L1", "Z1", "12.5", "7"),
             [Line("L2", "Z1", "abc", "n.a.") EXCEPT ![12] = "unknown"] >>
\* two complete rows and a third whose Loc field is empty
F_missing_loc == << header, Line("L1", "Z1", "12.5", "7"),
                    Line("L2", "Z1", "7", "7"), Line("", "Z1", "7", "7") >>

Feeds == {F_one, F_two, F_dup, F_nullloc, F_empty, F_nocol, F_bad, F_text,
          F_missing_loc}

\* feeds of the two-instance runs: every Loc is listed once
FeedsTwo == {F_one, F_two, F_nullloc}

\* what makes requests.get / raise_for_status / pd.read_csv raise
FetchErrors == {"network", "http_500", "empty_body"}

(************************* state *******************************************)
Instances == {1, 2}

VARIABLES
    now,          \* the clock, in ticks (datetime.now())
    table_exists, \* operational_capacity has been created
    table,        \* committed rows of operational_capacity, a bag
    temp_table,   \* the scratch table temp_table of the database file
    pc,           \* pc[p]: where instance p is in process_last_n_days
    n,            \* n[p]: the argument of process_last_n_days
    days_ago,     \* days_ago[p]: the loop variable
    target_date,  \* target_date[p]
    df,           \* df[p]: the DataFrame of the day
    pending,      \* pending[p]: the open transaction of conn
    rowcount,     \* rowcount[p]: cursor.rowcount
    runs,         \* runs[p]: runs started so far
    planned,      \* planned[p]: days of the runs started so far
    setups,       \* setups[p]: outcomes of the setup_database calls of the run
    run_base,     \* run_base[p]: table size when the run began
    ingested,     \* gas day and Loc of the batches stored, by instance and run
    fetch_log,    \* fetch_log[p]: day indices fetched in the current run
    day_log,      \* day_log[p]: outcome of every finished day of the run
    day_base,     \* day_base[p]: table size when the day's pass began
    response,     \* response[p]: the body the last fetch of the run returned
    raw_df,       \* raw_df[p]: the record set handed to validate_data
    snap,         \* snap[p]: the table when insert_data_to_db was entered
    reported,     \* reported[p]: the count insert_data_to_db logged last
    batch,        \* the batch of the repeated-call driver
    calls,        \* calls made by the repeated-call and the rename driver
    vres          \* result of validate_data in the validator driver

vars == << now, table_exists, table, temp_table, pc, n, days_ago, target_date,
           df, pending, rowcount, runs, planned, setups, run_base, ingested,
           fetch_log, day_log, day_base, response, raw_df, snap, reported,
           batch, calls, vres >>

NoDf == [columns |-> {}, rows |-> << >>]
NoTxn == [active |-> FALSE, rows |-> << >>, dropped |-> FALSE]

Init ==
    /\ now = 0
    /\ table_exists = FALSE
    /\ table = EmptyBag
    /\ temp_table = NoTable
    /\ pc = [p \in Instances |-> "idle"]
    /\ n = [p \in Instances |-> 0]
    /\ days_ago = [p \in Instances |-> 0]
    /\ target_date = [p \in Instances |-> 0]
    /\ df = [p \in Instances |-> NoDf]
    /\ pending = [p \in Instances |-> NoTxn]
    /\ rowcount = [p \in Instances |-> -1]
    /\ runs = [p \in Instances |-> 0]
    /\ planned = [p \in Instances |-> 0]
    /\ setups = [p \in Instances |-> << >>]
    /\ run_base = [p \in Instances |-> 0]
    /\ ingested = {}
    /\ fetch_log = [p \in Instances |-> << >>]
    /\ day_log = [p \in Instances |-> << >>]
    /\ day_base = [p \in Instances |-> 0]
    /\ response = [p \in Instances |-> << >>]
    /\ raw_df = [p \in Instances |-> NoDf]
    /\ snap = [p \in Instances |-> EmptyBag]
    /\ reported = [p \in Instances |-> 0]
    /\ batch = NoDf
    /\ calls = 0
    /\ vres = "none"

\* no other connection holds the write lock of the database file
LockFree(p) == \A q \in Instances \ {p} : ~ pending[q].active

\* the end of one day's pass: the loop goes on with the next index; the
\* day's DataFrame and the locals of insert_data_to_db are dead
EndDay(p, outcome, tbl) ==
    /\ days_ago' = [days_ago EXCEPT ![p] = @ + 1]
    /\ pc' = [pc EXCEPT ![p] = "loop"]
    /\ day_log' = [day_log EXCEPT ![p] =
           Append(@, [d |-> days_ago[p], outcome |-> outcome,
                      added |-> BagCardinality(tbl) - day_base[p]])]
    /\ df' = [df EXCEPT ![p] = NoDf]
    /\ raw_df' = [raw_df EXCEPT ![p] = NoDf]
    /\ snap' = [snap EXCEPT ![p] = EmptyBag]
    /\ rowcount' = [rowcount EXCEPT ![p] = -1]

(************************* process_last_n_days *****************************)
\* a call process_last_n_days(k) whose loop is range(1, k)
StartRun_from_yesterday(p, maxruns, maxn, maxdays) ==
    /\ pc[p] \in {"idle", "done", "raised"}
    /\ runs[p] < maxruns
    /\ \E k \in 0..maxn :
          /\ planned[p] + k <= maxdays
          /\ n' = [n EXCEPT ![p] = k]
          /\ planned' = [planned EXCEPT ![p] = @ + k]
    /\ runs' = [runs EXCEPT ![p] = @ + 1]
    /\ pc' = [pc EXCEPT ![p] = "setup"]
    /\ days_ago' = [days_ago EXCEPT ![p] = 1]
    /\ setups' = [setups EXCEPT ![p] = << >>]
    /\ run_base' = [run_base EXCEPT ![p] = BagCardinality(table)]
    /\ fetch_log' = [fetch_log EXCEPT ![p] = << >>]
    /\ day_log' = [day_log EXCEPT ![p] = << >>]
    /\ response' = [response EXCEPT ![p] = << >>]
    /\ UNCHANGED << now, table_exists, table, temp_table, target_date, df,
                    pending, rowcount, ingested, day_base, raw_df, snap,
                    reported, batch, calls, vres >>

\* a call process_last_n_days(k)
StartRun(p, maxruns, maxn, maxdays) ==
    /\ pc[p] \in {"idle", "done", "raised"}
    /\ runs[p] < maxruns
    /\ \E k \in 0..maxn :
          /\ planned[p] + k <= maxdays
          /\ n' = [n EXCEPT ![p] = k]
          /\ planned' = [planned EXCEPT ![p] = @ + k]
    /\ runs' = [runs EXCEPT ![p] = @ + 1]
    /\ pc' = [pc EXCEPT ![p] = "setup"]
    /\ days_ago' = [days_ago EXCEPT ![p] = 0]
    /\ setups' = [setups EXCEPT ![p] = << >>]
    /\ run_base' = [run_base EXCEPT ![p] = BagCardinality(table)]
    /\ fetch_log' = [fetch_log EXCEPT ![p] = << >>]
    /\ day_log' = [day_log EXCEPT ![p] = << >>]
    /\ response' = [response EXCEPT ![p] = << >>]
    /\ UNCHANGED << now, table_exists, table, temp_table, target_date, df,
                    pending, rowcount, ingested, day_base, raw_df, snap,
                    reported, batch, calls, vres >>

\* a setup that drops the table and creates it anew
create_table_drop_first(tbl) == EmptyBag

\* CREATE TABLE IF NOT EXISTS: an existing table keeps its rows
create_table(tbl) == tbl

\* setup_database() returns
Setup(p) ==
    /\ pc[p] = "setup"
    /\ LockFree(p) \/ table_exists
    /\ table_exists' = TRUE
    /\ table' = create_table(table)
    /\ setups' = [setups EXCEPT ![p] = Append(@, "ok")]
    /\ pc' = [pc EXCEPT ![p] = "loop"]
    /\ UNCHANGED << now, temp_table, n, days_ago, target_date, df, pending,
                    rowcount, runs, planned, run_base, ingested, fetch_log,
                    day_log, day_base, response, raw_df, snap, reported, batch,
                    calls, vres >>

\* a setup_database() whose exception is logged and not re-raised
SetupFail_swallowed(p) ==
    /\ pc[p] = "setup"
    /\ setups' = [setups EXCEPT ![p] = Append(@, "failed")]
    /\ pc' = [pc EXCEPT ![p] = "loop"]
    /\ UNCHANGED << now, table_exists, table, temp_table, n, days_ago,
                    target_date, df, pending, rowcount, runs, planned, run_base,
                    ingested, fetch_log, day_log, day_base, response, raw_df,
                    snap, reported, batch, calls, vres >>

\* setup_database() raises: nothing catches it in process_last_n_days
SetupFail(p) ==
    /\ pc[p] = "setup"
    /\ setups' = [setups EXCEPT ![p] = Append(@, "failed")]
    /\ pc' = [pc EXCEPT ![p] = "raised"]
    /\ UNCHANGED << now, table_exists, table, temp_table, n, days_ago,
                    target_date, df, pending, rowcount, runs, planned, run_base,
                    ingested, fetch_log, day_log, day_base, response, raw_df,
                    snap, reported, batch, calls, vres >>

\* one more iteration: target_date is computed and the day's CSV arrives
Fetch(p, feeds) ==
    /\ pc[p] = "loop"
    /\ days_ago[p] < n[p]
    /\ target_date' = [target_date EXCEPT ![p] = now - timedelta(days_ago[p])]
    /\ \E text \in feeds :
          /\ response' = [response EXCEPT ![p] = text]
          /\ df' = [df EXCEPT ![p] = read_csv(text)]
    /\ fetch_log' = [fetch_log EXCEPT ![p] = Append(@, days_ago[p])]
    /\ day_base' = [day_base EXCEPT ![p] = BagCardinality(table)]
    /\ pc' = [pc EXCEPT ![p] = "stamp"]
    /\ UNCHANGED << now, table_exists, table, temp_table, n, days_ago, pending,
                    rowcount, runs, planned, setups, run_base, ingested, day_log,
                    raw_df, snap, reported, batch, calls, vres >>

\* download_data_by_date raises; the call is made before the try of the
\* loop body, so the exception leaves process_last_n_days
FetchFail(p) ==
    /\ pc[p] = "loop"
    /\ days_ago[p] < n[p]
    /\ \E e \in FetchErrors :
          day_log' = [day_log EXCEPT ![p] =
              Append(@, [d |-> days_ago[p], outcome |-> e, added |-> 0])]
    /\ target_date' = [target_date EXCEPT ![p] = now - timedelta(days_ago[p])]
    /\ fetch_log' = [fetch_log EXCEPT ![p] = Append(@, days_ago[p])]
    /\ response' = [response EXCEPT ![p] = << >>]
    /\ pc' = [pc EXCEPT ![p] = "raised"]
    /\ UNCHANGED << now, table_exists, table, temp_table, n, days_ago, df,
                    pending, rowcount, runs, planned, setups, run_base, ingested,
                    day_base, raw_df, snap, reported, batch, calls, vres >>

\* the range is exhausted: process_last_n_days returns
Finish(p) ==
    /\ pc[p] = "loop"
    /\ days_ago[p] >= n[p]
    /\ response' = [response EXCEPT ![p] = << >>]
    /\ pc' = [pc EXCEPT ![p] = "done"]
    /\ UNCHANGED << now, table_exists, table, temp_table, n, days_ago,
                    target_date, df, pending, rowcount, runs, planned, setups,
                    run_base, ingested, fetch_log, day_log, day_base, raw_df,
                    snap, reported, batch, calls, vres >>

\* the DataFrame after the two stamps
stamp(d, t_now, t_target) ==
    SetColumn(SetColumn(d, "Post Date", Datetime(t_now)),
              "Effective Date", Datetime(t_target))

\* the two stamps, then validate_data returns True
ValidatePass(p) ==
    /\ pc[p] = "stamp"
    /\ validate_data(stamp(df[p], now, target_date[p]))
    /\ raw_df' = [raw_df EXCEPT ![p] = stamp(df[p], now, target_date[p])]
    /\ df' = [df EXCEPT ![p] = stamp(df[p], now, target_date[p])]
    /\ pc' = [pc EXCEPT ![p] = "transform"]
    /\ UNCHANGED << now, table_exists, table, temp_table, n, days_ago,
                    target_date, pending, rowcount, runs, planned, setups,
                    run_base, ingested, fetch_log, day_log, day_base, response,
                    snap, reported, batch, calls, vres >>

\* the two stamps, then a validate_data whose failure is raised to the caller
ValidateFail_raises(p) ==
    /\ pc[p] = "stamp"
    /\ ~ validate_data(stamp(df[p], now, target_date[p]))
    /\ day_log' = [day_log EXCEPT ![p] =
           Append(@, [d |-> days_ago[p], outcome |-> "invalid", added |-> 0])]
    /\ pc' = [pc EXCEPT ![p] = "raised"]
    /\ UNCHANGED << now, table_exists, table, temp_table, n, days_ago,
                    target_date, df, pending, rowcount, runs, planned, setups,
                    run_base, ingested, fetch_log, day_base, response, raw_df,
                    snap, reported, batch, calls, vres >>

\* the two stamps, then validate_data returns False: continue
ValidateFail(p) ==
    /\ pc[p] = "stamp"
    /\ ~ validate_data(stamp(df[p], now, target_date[p]))
    /\ EndDay(p, "invalid", table)
    /\ UNCHANGED << now, table_exists, table, temp_table, n, target_date,
                    pending, runs, planned, setups, run_base, ingested,
                    fetch_log, day_base, response, reported, batch, calls, vres >>

Transform(p) ==
    /\ pc[p] = "transform"
    /\ df' = [df EXCEPT ![p] = transform_data(df[p])]
    /\ pc' = [pc EXCEPT ![p] = "stage"]
    /\ UNCHANGED << now, table_exists, table, temp_table, n, days_ago,
                    target_date, pending, rowcount, runs, planned, setups,
                    run_base, ingested, fetch_log, day_log, day_base, response,
                    raw_df, snap, reported, batch, calls, vres >>

(************************* insert_data_to_db, step by step ******************)
\* connect, then df.to_sql: the batch replaces temp_table and is committed
InsertStage(p) ==
    /\ pc[p] = "stage"
    /\ LockFree(p)
    /\ snap' = [snap EXCEPT ![p] = table]
    /\ temp_table' = to_sql(df[p])
    /\ pc' = [pc EXCEPT ![p] = "exec"]
    /\ UNCHANGED << now, table_exists, table, n, days_ago, target_date, df,
                    pending, rowcount, runs, planned, setups, run_base, ingested,
                    fetch_log, day_log, day_base, response, raw_df, reported,
                    batch, calls, vres >>

\* the INSERT ... SELECT opens a transaction on conn
InsertExec(p) ==
    /\ pc[p] = "exec"
    /\ LockFree(p)
    /\ temp_table.present
    /\ pending' = [pending EXCEPT ![p] =
           [active |-> TRUE, rows |-> new_records(table, temp_table),
            dropped |-> FALSE]]
    /\ rowcount' = [rowcount EXCEPT ![p] = Len(new_records(table, temp_table))]
    /\ pc' = [pc EXCEPT ![p] = "drop"]
    /\ UNCHANGED << now, table_exists, table, temp_table, n, days_ago,
                    target_date, df, runs, planned, setups, run_base, ingested,
                    fetch_log, day_log, day_base, response, raw_df, snap,
                    reported, batch, calls, vres >>

\* cursor.rowcount after a statement that is not INSERT, UPDATE or DELETE;
\* k is the count the cursor held before
rowcount_after_drop(k) == -1

\* DROP TABLE IF EXISTS temp_table, on the same cursor, in the transaction
InsertDrop(p) ==
    /\ pc[p] = "drop"
    /\ pending' = [pending EXCEPT ![p].dropped = TRUE]
    /\ rowcount' = [rowcount EXCEPT ![p] = rowcount_after_drop(@)]
    /\ pc' = [pc EXCEPT ![p] = "commit"]
    /\ UNCHANGED << now, table_exists, table, temp_table, n, days_ago,
                    target_date, df, runs, planned, setups, run_base, ingested,
                    fetch_log, day_log, day_base, response, raw_df, snap,
                    reported, batch, calls, vres >>

\* the table after conn.commit() of a transaction that inserted rows
commit_rows(tbl, rows) == tbl (+) SeqToBag(rows)

\* what a stored batch d ingests: each gas day and Loc it lists, and on how
\* many rows
ingest_records(p, run, d) ==
    {[inst |-> p, run |-> run, eff |-> d.rows[i]["effective_date"],
      loc |-> d.rows[i]["loc"],
      listed |-> Cardinality({j \in 1..Len(d.rows) :
                     /\ d.rows[j]["effective_date"] = d.rows[i]["effective_date"]
                     /\ d.rows[j]["loc"] = d.rows[i]["loc"]})] :
        i \in 1..Len(d.rows)}

\* conn.commit(), conn.close(), the log line with cursor.rowcount; the day
\* is over
InsertCommit(p) ==
    /\ pc[p] = "commit"
    /\ table' = commit_rows(table, pending[p].rows)
    /\ temp_table' = IF pending[p].dropped THEN NoTable ELSE temp_table
    /\ pending' = [pending EXCEPT ![p] = NoTxn]
    /\ reported' = [reported EXCEPT ![p] = rowcount[p]]
    /\ ingested' = ingested \cup ingest_records(p, runs[p], df[p])
    /\ EndDay(p, "stored", commit_rows(table, pending[p].rows))
    /\ UNCHANGED << now, table_exists, n, target_date, runs, planned, setups,
                    run_base, fetch_log, day_base, response, batch, calls, vres >>

\* what a failed df.to_sql can leave of temp_table: it drops, recreates and
\* fills the table in separate steps
stage_fault_outcomes(p) ==
    IF LockFree(p)
    THEN {temp_table, NoTable, [present |-> TRUE, rows |-> << >>]}
    ELSE {temp_table}

\* a handler that commits what the open transaction holds before it closes
\* the connection
InsertFault_commits(p) ==
    /\ pc[p] \in {"stage", "exec", "drop", "commit"}
    /\ IF pc[p] = "stage"
       THEN temp_table' \in stage_fault_outcomes(p)
       ELSE UNCHANGED temp_table
    /\ table' = commit_rows(table, pending[p].rows)
    /\ pending' = [pending EXCEPT ![p] = NoTxn]
    /\ EndDay(p, "store_failed", commit_rows(table, pending[p].rows))
    /\ UNCHANGED << now, table_exists, n, target_date, runs, planned, setups,
                    run_base, ingested, fetch_log, day_base, response, reported,
                    batch, calls, vres >>

\* a storage fault in a step of insert_data_to_db (a locked database and a
\* missing temp_table included): conn.close() rolls the open transaction
\* back, the exception is re-raised and caught by the loop body
InsertFault(p) ==
    /\ pc[p] \in {"stage", "exec", "drop", "commit"}
    /\ IF pc[p] = "stage"
       THEN temp_table' \in stage_fault_outcomes(p)
       ELSE UNCHANGED temp_table
    /\ pending' = [pending EXCEPT ![p] = NoTxn]
    /\ EndDay(p, "store_failed", table)
    /\ UNCHANGED << now, table_exists, table, n, target_date, runs, planned,
                    setups, run_base, ingested, fetch_log, day_base, response,
                    reported, batch, calls, vres >>

(************************* the clock ***************************************)
Tick ==
    /\ now < MaxNow
    /\ now' = now + 1
    /\ UNCHANGED << table_exists, table, temp_table, pc, n, days_ago,
                    target_date, df, pending, rowcount, runs, planned, setups,
                    run_base, ingested, fetch_log, day_log, day_base, response,
                    raw_df, snap, reported, batch, calls, vres >>

(************************* one instance ************************************)
\* the deployed system: one instance owns the database file
Next ==
    \/ StartRun(1, MaxRuns, MaxN, MaxDays)
    \/ Setup(1)
    \/ SetupFail(1)
    \/ Fetch(1, Feeds)
    \/ FetchFail(1)
    \/ Finish(1)
    \/ ValidatePass(1)
    \/ ValidateFail(1)
    \/ Transform(1)
    \/ InsertStage(1)
    \/ InsertExec(1)
    \/ InsertDrop(1)
    \/ InsertCommit(1)
    \/ InsertFault(1)
    \/ Tick

Spec == Init /\ [][Next]_vars

(************************* two instances ***********************************)
\* two instances of the pipeline against the same database file
NextTwo ==
    \/ \E p \in Instances :
          \/ StartRun(p, TwoRuns, TwoN, TwoRuns * TwoN)
          \/ Setup(p)
          \/ SetupFail(p)
          \/ Fetch(p, FeedsTwo)
          \/ FetchFail(p)
          \/ Finish(p)
          \/ ValidatePass(p)
          \/ ValidateFail(p)
          \/ Transform(p)
          \/ InsertStage(p)
          \/ InsertExec(p)
          \/ InsertDrop(p)
          \/ InsertCommit(p)
          \/ InsertFault(p)
    \/ Tick

SpecTwo == Init /\ [][NextTwo]_vars

(************************* insert_data_to_db called twice *******************)
\* the driver takes the batch that is about to be inserted
TwiceFirst ==
    /\ calls = 0
    /\ pc[1] = "stage"
    /\ batch' = df[1]
    /\ calls' = 1
    /\ UNCHANGED << now, table_exists, table, temp_table, pc, n, days_ago,
                    target_date, df, pending, rowcount, runs, planned, setups,
                    run_base, ingested, fetch_log, day_log, day_base, response,
                    raw_df, snap, reported, vres >>

\* the first call has returned: insert_data_to_db is called again with the
\* same batch
TwiceAgain ==
    /\ calls = 1
    /\ pc[1] = "loop"
    /\ Last(day_log[1]).outcome = "stored"
    /\ calls' = 2
    /\ df' = [df EXCEPT ![1] = batch]
    /\ pc' = [pc EXCEPT ![1] = "stage"]
    /\ day_base' = [day_base EXCEPT ![1] = BagCardinality(table)]
    /\ UNCHANGED << now, table_exists, table, temp_table, n, days_ago,
                    target_date, pending, rowcount, runs, planned, setups,
                    run_base, ingested, fetch_log, day_log, response, raw_df,
                    snap, reported, batch, vres >>

\* the pipeline up to the first call's return, then only the second call
NextTwice ==
    \/ calls = 0 /\ Next
    \/ TwiceFirst
    \/ /\ calls >= 1
       /\ \/ InsertStage(1)
          \/ InsertExec(1)
          \/ InsertDrop(1)
          \/ InsertCommit(1)
          \/ InsertFault(1)
    \/ TwiceAgain

SpecTwice == Init /\ [][NextTwice]_vars

(************************* validate_data on its own ************************)
AllColumns == Range(required_columns)

\* column headers: the required ones, one of them missing, or one more
ValidateColumns ==
    {AllColumns} \cup {AllColumns \ {c} : c \in AllColumns}
                 \cup {AllColumns \cup {"Extra"}}

\* a record over cols with text in every field but nulls
ValidateRow(cols, nulls) == [c \in cols |-> IF c \in nulls THEN NULL ELSE Str("x")]

\* records with no null or with a null in one field
ValidateRows(cols) == {ValidateRow(cols, {})} \cup {ValidateRow(cols, {c}) : c \in cols}

\* the record sets over cols with k records
ValidateInputs(cols, k) ==
    {[columns |-> cols, rows |-> rs] : rs \in [1..k -> ValidateRows(cols)]}

InitValidate ==
    /\ now = 0
    /\ table_exists = FALSE
    /\ table = EmptyBag
    /\ temp_table = NoTable
    /\ pc = [p \in Instances |-> "idle"]
    /\ n = [p \in Instances |-> 0]
    /\ days_ago = [p \in Instances |-> 0]
    /\ target_date = [p \in Instances |-> 0]
    /\ df = [p \in Instances |-> NoDf]
    /\ pending = [p \in Instances |-> NoTxn]
    /\ rowcount = [p \in Instances |-> -1]
    /\ runs = [p \in Instances |-> 0]
    /\ planned = [p \in Instances |-> 0]
    /\ setups = [p \in Instances |-> << >>]
    /\ run_base = [p \in Instances |-> 0]
    /\ ingested = {}
    /\ fetch_log = [p \in Instances |-> << >>]
    /\ day_log = [p \in Instances |-> << >>]
    /\ day_base = [p \in Instances |-> 0]
    /\ response = [p \in Instances |-> << >>]
    /\ \E cols \in ValidateColumns : \E k \in 0..MaxVRows :
          \E d \in ValidateInputs(cols, k) :
              raw_df = [p \in Instances |-> IF p = 1 THEN d ELSE NoDf]
    /\ snap = [p \in Instances |-> EmptyBag]
    /\ reported = [p \in Instances |-> 0]
    /\ batch = NoDf
    /\ calls = 0
    /\ vres = "none"

\* validate_data(raw_df[1]) is called
ValidateCall ==
    /\ vres = "none"
    /\ vres' = IF validate_data(raw_df[1]) THEN "pass" ELSE "fail"
    /\ UNCHANGED << now, table_exists, table, temp_table, pc, n, days_ago,
                    target_date, df, pending, rowcount, runs, planned, setups,
                    run_base, ingested, fetch_log, day_log, day_base, response,
                    raw_df, snap, reported, batch, calls >>

NextValidate == ValidateCall

SpecValidate == InitValidate /\ [][NextValidate]_vars

(************************* the rename on its own ****************************)
\* df[1] starts as a record set with source column names
InitRename ==
    /\ now = 0
    /\ table_exists = FALSE
    /\ table = EmptyBag
    /\ temp_table = NoTable
    /\ pc = [p \in Instances |-> "idle"]
    /\ n = [p \in Instances |-> 0]
    /\ days_ago = [p \in Instances |-> 0]
    /\ target_date = [p \in Instances |-> 0]
    /\ pending = [p \in Instances |-> NoTxn]
    /\ rowcount = [p \in Instances |-> -1]
    /\ runs = [p \in Instances |-> 0]
    /\ planned = [p \in Instances |-> 0]
    /\ setups = [p \in Instances |-> << >>]
    /\ run_base = [p \in Instances |-> 0]
    /\ ingested = {}
    /\ fetch_log = [p \in Instances |-> << >>]
    /\ day_log = [p \in Instances |-> << >>]
    /\ day_base = [p \in Instances |-> 0]
    /\ response = [p \in Instances |-> << >>]
    /\ \E cols \in ValidateColumns : \E k \in 0..MaxVRows :
          \E d \in ValidateInputs(cols, k) :
              /\ raw_df = [p \in Instances |-> IF p = 1 THEN d ELSE NoDf]
              /\ df = raw_df
    /\ snap = [p \in Instances |-> EmptyBag]
    /\ reported = [p \in Instances |-> 0]
    /\ batch = NoDf
    /\ calls = 0
    /\ vres = "none"

\* df = df.rename(columns=column_mapping), applied to what the last
\* application returned
RenameCall ==
    /\ calls < 2
    /\ df' = [df EXCEPT ![1] = rename(df[1])]
    /\ calls' = calls + 1
    /\ UNCHANGED << now, table_exists, table, temp_table, pc, n, days_ago,
                    target_date, pending, rowcount, runs, planned, setups,
                    run_base, ingested, fetch_log, day_log, day_base, response,
                    raw_df, snap, reported, batch, vres >>

NextRename == RenameCall

SpecRename == InitRename /\ [][NextRename]_vars

(************************* properties ***************************************)
RECURSIVE CountRows(_, _, _)
\* rows of the bag tbl that satisfy P, counted with their copies
CountRows(P(_), tbl, rest) ==
    IF rest = {} THEN 0
    ELSE LET q == CHOOSE x \in rest : TRUE
         IN (IF P(q) THEN CopiesIn(q, tbl) ELSE 0) + CountRows(P, tbl, rest \ {q})

\* rows of tbl with the natural key (post_date, effective_date, loc) of r
RowsWithKey(tbl, r) ==
    LET P(q) == /\ q["post_date"] = r["post_date"]
                /\ q["effective_date"] = r["effective_date"]
                /\ q["loc"] = r["loc"]
    IN CountRows(P, tbl, BagToSet(tbl))

\* rows of tbl for gas day eff and location loc
RowsWithGasDayLoc(tbl, eff, loc) ==
    LET P(q) == q["effective_date"] = eff /\ q["loc"] = loc
    IN CountRows(P, tbl, BagToSet(tbl))

\* C1: when the fetch for day d fails, no row is inserted for day d, the
\* run does not raise, and a run that has returned has fetched every day
\* index 0..n-1.
C1_FetchFailureSkipsDay ==
    \A i \in 1..Len(day_log[1]) :
        day_log[1][i].outcome \in FetchErrors =>
            /\ day_log[1][i].added = 0
            /\ pc[1] # "raised"
            /\ pc[1] = "done" => Len(fetch_log[1]) = n[1]

\* C2: no two rows of operational_capacity share a natural key
\* (post_date, effective_date, loc).
C2_NaturalKeyUnique ==
    \A q \in BagToSet(table) : RowsWithKey(table, q) = 1

\* C3: when two runs have both ingested gas day E and location L (each from
\* a batch that lists L once), the table holds exactly one row for (E, L).
C3_OneRowPerGasDayAndLoc ==
    \A a, b \in ingested :
        ( /\ a.inst = 1 /\ b.inst = 1
          /\ a.run # b.run
          /\ a.eff = b.eff /\ a.loc = b.loc
          /\ a.listed = 1 /\ b.listed = 1 )
        => RowsWithGasDayLoc(table, a.eff, a.loc) = 1

\* C4: when insert_data_to_db has been called twice in succession with the
\* same batch, the second call has added no row and the table holds exactly
\* one row for each natural key of the batch.
C4_InsertTwiceIdempotent ==
    ( /\ calls = 2
      /\ pc[1] = "loop"
      /\ Last(day_log[1]).outcome = "stored" )
    => /\ Last(day_log[1]).added = 0
       /\ \A i \in 1..Len(batch.rows) : RowsWithKey(table, batch.rows[i]) = 1

\* C5: with two instances on one database file, no two rows of the table
\* share a natural key, and the rows an instance's INSERT adds are rows of
\* its own batch.
C5_ConcurrentInsertCorrect ==
    /\ \A q \in BagToSet(table) : RowsWithKey(table, q) = 1
    /\ \A p \in Instances :
          pending[p].active =>
              \A i \in 1..Len(pending[p].rows) :
                  \E j \in 1..Len(df[p].rows) :
                      \A k \in table_columns :
                          df[p].rows[j][k] = pending[p].rows[i][k]

\* the record set has every required column, at least one record, and no
\* null in Post Date, Effective Date, Loc, Loc Zn or Loc/QTI
BatchPasses(d) ==
    /\ \A c \in DOMAIN column_mapping : c \in d.columns
    /\ Len(d.rows) > 0
    /\ \A i \in 1..Len(d.rows) :
          \A c \in {"Post Date", "Effective Date", "Loc", "Loc Zn", "Loc/QTI"} :
              d.rows[i][c].t # "null"

\* C6: the table changes only in the pass of a day whose whole batch
\* passes validation: has all required columns, is non-empty and has no
\* null in a critical field; a day whose batch does not pass adds no row.
C6_InsertOnlyValidatedBatch ==
    [][table' # table => BatchPasses(raw_df[1])]_vars

\* a run in which one day failed validation and added nothing while another
\* day stored rows
C6_Witness ==
    /\ \E i \in 1..Len(day_log[1]) :
          day_log[1][i].outcome = "invalid" /\ day_log[1][i].added = 0
    /\ \E i \in 1..Len(day_log[1]) :
          day_log[1][i].outcome = "stored" /\ day_log[1][i].added > 0

\* C7: validate_data passes exactly the record sets that have all 17
\* required columns, at least one record, and no null in Post Date,
\* Effective Date, Loc, Loc Zn or Loc/QTI.
C7_ValidateExact ==
    /\ Cardinality(DOMAIN column_mapping) = 17
    /\ vres # "none" => (vres = "pass" <=> BatchPasses(raw_df[1]))

\* a record set with a null in a non-critical field has passed
C7_Witness ==
    /\ vres = "pass"
    /\ \E i \in 1..Len(raw_df[1].rows) : isnull(raw_df[1].rows[i]["TSQ"])

\* C8: operational_capacity is append-only: in every step every row keeps
\* at least the copies it had.
C8_AppendOnly ==
    [][\A r \in BagToSet(table) : CopiesIn(r, table') >= CopiesIn(r, table)]_vars

\* a second run has set up the database over stored rows and then lost a
\* day to a storage fault
C8_Witness ==
    /\ runs[1] = 2
    /\ table # EmptyBag
    /\ setups[1] = << "ok" >>
    /\ \E i \in 1..Len(day_log[1]) : day_log[1][i].outcome = "store_failed"

\* C9: setup_database runs exactly once per run and before any fetch; when
\* it fails the run has raised with no fetch issued, no day processed and
\* no row inserted.
C9_SetupFailureFatal ==
    /\ Len(setups[1]) <= 1
    /\ pc[1] \notin {"idle", "setup"} => Len(setups[1]) = 1
    /\ fetch_log[1] # << >> => setups[1] = << "ok" >>
    /\ setups[1] = << "failed" >> =>
          /\ pc[1] = "raised"
          /\ fetch_log[1] = << >>
          /\ day_log[1] = << >>
          /\ BagCardinality(table) = run_base[1]

\* the second run failed in setup_database, over a table the first run
\* filled
C9_Witness ==
    /\ runs[1] = 2
    /\ n[1] > 0
    /\ setups[1] = << "failed" >>
    /\ pc[1] = "raised"
    /\ table # EmptyBag

\* C10: the count insert_data_to_db reports after a successful call is the
\* number of rows the call added to the table.
C10_ReportedCountIsRowsAdded ==
    ( /\ pc[1] = "loop"
      /\ day_log[1] # << >>
      /\ Last(day_log[1]).outcome = "stored" )
    => reported[1] = Last(day_log[1]).added

\* the pass of a day is under way: it has been fetched and is not finished
InDay(p) == pc[p] \in {"stamp", "transform", "stage", "exec", "drop", "commit"}

\* C11: the fetches of a run are for the day indices 0, 1, 2, ... in this
\* order, one fetch each and none for an index outside 0..n-1; a fetch
\* computes the target date as now minus d days; the pass of day d is
\* finished before day d+1 is fetched; and a run that has returned has
\* fetched each of 0..n-1.
C11_OneFetchPerDayAscending ==
    /\ [](/\ \A i \in 1..Len(fetch_log[1]) : fetch_log[1][i] = i - 1
          /\ Len(fetch_log[1]) <= n[1]
          /\ pc[1] = "loop" =>
                /\ Len(day_log[1]) = Len(fetch_log[1])
                /\ days_ago[1] = Len(fetch_log[1])
          /\ InDay(1) =>
                /\ Len(fetch_log[1]) = Len(day_log[1]) + 1
                /\ Last(fetch_log[1]) = days_ago[1]
          /\ pc[1] = "done" => Len(fetch_log[1]) = n[1])
    /\ [][Len(fetch_log'[1]) = Len(fetch_log[1]) + 1 =>
              target_date'[1] = now - days_ago[1] * TicksPerDay]_vars

\* a run over two days has returned with both days stored
C11_Witness ==
    /\ pc[1] = "done"
    /\ n[1] = 2
    /\ fetch_log[1] = << 0, 1 >>
    /\ Len(day_log[1]) = 2
    /\ \A i \in 1..2 : day_log[1][i].outcome = "stored"
    /\ now > 0

\* C12: a day whose stamped batch does not pass validation ends in one
\* step, with no transform and no insert: the loop is at its head with the
\* next index, the table and temp_table are as they were and the day is
\* logged invalid with no row added; the run has not raised because of it.
C12_ValidationFailureSkipsDay ==
    /\ [][( /\ pc[1] = "stamp"
            /\ ~ BatchPasses(stamp(df[1], now, target_date[1]))
            /\ pc'[1] # "stamp" )
          => /\ pc'[1] = "loop"
             /\ days_ago'[1] = days_ago[1] + 1
             /\ table' = table
             /\ temp_table' = temp_table
             /\ Len(day_log'[1]) = Len(day_log[1]) + 1
             /\ Last(day_log'[1]).outcome = "invalid"]_vars
    /\ [](\A i \in 1..Len(day_log[1]) :
              day_log[1][i].outcome = "invalid" =>
                  /\ day_log[1][i].added = 0
                  /\ i = Len(day_log[1]) => pc[1] # "raised")

\* a run over two days has returned although both days failed validation
C12_Witness ==
    /\ pc[1] = "done"
    /\ n[1] = 2
    /\ Len(day_log[1]) = 2
    /\ \A i \in 1..2 : day_log[1][i].outcome = "invalid"
    /\ table = EmptyBag

\* a cell that holds text which is not the text of a number
NonNumericText(c) == c.t = "str" /\ c.v \notin {"12.5", "7", "0"}

\* C13: in the transformed batch every validated record is still there,
\* and a Loc/QTI, TSQ or OAC that held non-numeric text is null in loc_qti,
\* tsq or oac; when the insert commits, every record of the batch is in the
\* table unless the table already held a row with its natural key.
C13_CoercionNeverRejects ==
    /\ [](pc[1] \in {"stage", "exec", "drop", "commit"} =>
            /\ Len(df[1].rows) = Len(raw_df[1].rows)
            /\ \A i \in 1..Len(raw_df[1].rows) :
                  \A c \in {"Loc/QTI", "TSQ", "OAC"} :
                      NonNumericText(raw_df[1].rows[i][c]) =>
                          df[1].rows[i][column_mapping[c]].t = "null")
    /\ [][( /\ pc[1] = "commit"
            /\ Len(day_log'[1]) = Len(day_log[1]) + 1
            /\ Last(day_log'[1]).outcome = "stored" )
          => \A i \in 1..Len(df[1].rows) :
                \/ \E q \in BagToSet(table) : same_key(q, df[1].rows[i])
                \/ CopiesIn(select_columns(df[1].rows[i]), table') >= 1]_vars

\* the day whose feed had text in Loc/QTI, TSQ and OAC of one record was
\* stored whole, and that record is in the table with the three fields null
C13_Witness ==
    /\ pc[1] = "loop"
    /\ response[1] = F_text
    /\ day_log[1] # << >>
    /\ Last(day_log[1]).outcome = "stored"
    /\ Last(day_log[1]).added = 2
    /\ \E q \in BagToSet(table) :
          q["loc_qti"].t = "null" /\ q["tsq"].t = "null" /\ q["oac"].t = "null"

\* the pass of a day has just ended whose fetch returned two complete rows
\* and one row with no Loc, the table being empty when the day began
ScenarioA_DayEnded ==
    /\ pc[1] = "loop"
    /\ day_log[1] # << >>
    /\ response[1] = F_missing_loc
    /\ day_base[1] = 0

DateOf(x) == [t |-> "date", v |-> x \div TicksPerDay]

\* C15: a fetch for day index d sets the target date to the clock minus d
\* days; the batch handed on by the stamping step has the clock in Post
\* Date and the target date in Effective Date of every record, whatever
\* the CSV held; and every row a commit adds to the table has the calendar
\* date of that processing time as post_date and the calendar date of the
\* target date as effective_date.
C15_RowsCarryRunAndTargetDate ==
    /\ [][( /\ pc[1] = "loop" /\ pc'[1] = "stamp" )
          => target_date'[1] + days_ago[1] * TicksPerDay = now]_vars
    /\ [][( /\ pc[1] = "stamp" /\ pc'[1] = "transform" )
          => \A i \in 1..Len(raw_df'[1].rows) :
                /\ raw_df'[1].rows[i]["Post Date"] = [t |-> "datetime", v |-> now]
                /\ raw_df'[1].rows[i]["Effective Date"] =
                       [t |-> "datetime", v |-> target_date[1]]]_vars
    /\ [][\A r \in BagToSet(table') :
              CopiesIn(r, table') > CopiesIn(r, table) =>
                  /\ r["post_date"] = DateOf(raw_df[1].rows[1]["Post Date"].v)
                  /\ r["effective_date"] = DateOf(target_date[1])]_vars

\* the day before the run's date has been stored: its rows carry the date
\* of the run and the date before it
C15_Witness ==
    /\ pc[1] = "loop"
    /\ day_log[1] # << >>
    /\ Last(day_log[1]).d = 1
    /\ Last(day_log[1]).outcome = "stored"
    /\ Last(day_log[1]).added > 0
    /\ \E q \in BagToSet(table) :
          q["post_date"] = DateOf(now) /\ q["effective_date"] = DateOf(now - TicksPerDay)

\* C16: column_mapping has 17 entries, one for every required source
\* name, no two with the same canonical name and no canonical name that is
\* a source name; and renaming a record set that has been renamed once
\* leaves it as it is.
C16_RenameIdempotent ==
    /\ [](/\ Cardinality(DOMAIN column_mapping) = 17
          /\ DOMAIN column_mapping = Range(required_columns)
          /\ \A a, b \in DOMAIN column_mapping :
                column_mapping[a] = column_mapping[b] => a = b
          /\ \A a \in DOMAIN column_mapping :
                column_mapping[a] \notin DOMAIN column_mapping)
    /\ [][(calls = 1 /\ calls' = 2) => df'[1] = df[1]]_vars

\* a record set with one column more than the required ones has been
\* renamed twice: the canonical names are there, the extra one is kept
C16_Witness ==
    /\ calls = 2
    /\ Len(df[1].rows) = MaxVRows
    /\ "Extra" \in df[1].columns
    /\ "loc_qti" \in df[1].columns
    /\ "Loc/QTI" \notin df[1].columns
    /\ Cardinality(df[1].columns) = 18

\* C17: when a step of insert_data_to_db (staging, insert, scratch drop or
\* commit) fails, the table is the table the call found, the day is logged
\* as failed with no row added, and the loop is at its head with the next
\* index; the run has not raised because of it.
C17_InsertFaultKeepsTable ==
    /\ [][( /\ pc[1] \in {"stage", "exec", "drop", "commit"}
            /\ Len(day_log'[1]) = Len(day_log[1]) + 1
            /\ Last(day_log'[1]).outcome = "store_failed" )
          => /\ table' = (IF pc[1] = "stage" THEN table ELSE snap[1])
             /\ Last(day_log'[1]).added = 0
             /\ pc'[1] = "loop"
             /\ days_ago'[1] = days_ago[1] + 1]_vars
    /\ [](\A i \in 1..Len(day_log[1]) :
              day_log[1][i].outcome = "store_failed" =>
                  /\ day_log[1][i].added = 0
                  /\ i = Len(day_log[1]) => pc[1] # "raised")

\* the first day of a run was lost to a storage fault and the next day was
\* stored: the table holds the rows of the second day only
C17_Witness ==
    /\ Len(day_log[1]) = 2
    /\ day_log[1][1].outcome = "store_failed"
    /\ day_log[1][2].outcome = "stored"
    /\ day_log[1][2].added > 0
    /\ BagCardinality(table) = day_log[1][2].added

\* C18: outside the steps of insert_data_to_db that follow the staging, the
\* database holds no temp_table: a call that has returned or raised has
\* left none behind.
C18_TempTableDiscarded ==
    pc[1] \notin {"exec", "drop", "commit"} => ~ temp_table.present

\* C19: every row of operational_capacity has a non-null post_date,
\* effective_date, loc, loc_zn and loc_qti.
C19_CriticalFieldsNonNull ==
    \A q \in BagToSet(table) :
        \A k \in {"post_date", "effective_date", "loc", "loc_zn", "loc_qti"} :
            q[k].t # "null"

====
